---- MODULE Spec2Model ----
(***************************************************************************)
(* Model of lib/ReadsAlignmentUtils/core/sam_tools.py (class SamTools).    *)
(*                                                                         *)
(* Text is a sequence of one-character strings, so that slicing, suffix    *)
(* tests, regular-expression matches and os.path.join are computed         *)
(* character by character, the way the Python code computes them.          *)
(* An optional value (Python None) is a sequence of length 0 or 1.         *)
(***************************************************************************)
EXTENDS Integers, Sequences, FiniteSets, TLC

VARIABLES pc, op, arg, loc, out, events, procs, fs, logger

vars == <<pc, op, arg, loc, out, events, procs, fs, logger>>

(***************************************************************************)
(* Bounds of the enumerated inputs.                                        *)
(***************************************************************************)
MaxNamePieces == 3
MaxTextPieces == 3
MaxCount == 2

(***************************************************************************)
(* Python values.                                                          *)
(***************************************************************************)
None == << >>
Some(x) == << x >>
IsNone(o) == Len(o) = 0
Val(o) == o[1]

RECURSIVE Flatten(_)
Flatten(ss) == IF Len(ss) = 0 THEN << >> ELSE Head(ss) \o Flatten(Tail(ss))

\* All texts made of at most n pieces of P, concatenated.
TextsOf(P, n) == UNION { { Flatten(ps) : ps \in [1..k -> P] } : k \in 0..n }

\* s[-n:]
PySuffix(s, n) == IF Len(s) <= n THEN s ELSE SubSeq(s, Len(s) - n + 1, Len(s))
\* s[:-n]
PyDropLast(s, n) == IF Len(s) <= n THEN << >> ELSE SubSeq(s, 1, Len(s) - n)
\* s.startswith(p)
StartsWith(s, p) == Len(s) >= Len(p) /\ SubSeq(s, 1, Len(p)) = p
\* s.endswith(p)
EndsWith(s, p) == Len(s) >= Len(p) /\ SubSeq(s, Len(s) - Len(p) + 1, Len(s)) = p
\* p in s
Contains(s, p) == \E i \in 1..(Len(s) - Len(p) + 1) : SubSeq(s, i, i + Len(p) - 1) = p

Slash == <<"/">>
\* os.path.join(a, b) on a POSIX system
PathJoin(a, b) ==
    IF StartsWith(b, Slash) THEN b
    ELSE IF Len(a) = 0 \/ EndsWith(a, Slash) THEN a \o b
    ELSE a \o Slash \o b

(***************************************************************************)
(* The extensions the operations pass to _prepare_paths.                   *)
(***************************************************************************)
DotSam == <<".", "s", "a", "m">>
DotBam == <<".", "b", "a", "m">>
DotBai == <<".", "b", "a", "i">>

ConvertOps == {"convert_sam_to_sorted_bam", "convert_bam_to_sam", "create_bai_from_bam"}

\* the iext argument of each operation's call of _prepare_paths
IExt(o) == IF o = "create_bai_from_bam" THEN DotBam ELSE DotSam
\* the oext argument of each operation's call of _prepare_paths
OExt(o) == IF o = "create_bai_from_bam" THEN DotBai ELSE DotBam

\* a default name that appends in every case
DefaultOfileAppend(ifile, iext, oext) == ifile \o oext

\* _prepare_paths, the branch "if ofile is None"
DefaultOfile(ifile, iext, oext) ==
    IF PySuffix(ifile, 4) = iext THEN PyDropLast(ifile, 4) \o oext
    ELSE ifile \o oext

Raise(e) == [kind |-> "raise", exc |-> e, val |-> 0, rec |-> None]
Return(v) == [kind |-> "return", exc |-> "", val |-> v, rec |-> None]
ReturnRec(r) == [kind |-> "return", exc |-> "", val |-> 0, rec |-> Some(r)]
Pending == [kind |-> "none", exc |-> "", val |-> 0, rec |-> None]

\* _prepare_paths: the exception it raises, or the triple it returns
PreparePaths(ifile, ipath, ofile, opath, iext, oext) ==
    IF IsNone(ipath) THEN [ok |-> FALSE, exc |-> "Exception"]
    ELSE IF ~IsNone(opath) /\ ~StartsWith(Val(opath), Slash)
    THEN [ok |-> FALSE, exc |-> "Exception"]
    ELSE LET od == IF IsNone(opath) THEN Val(ipath) ELSE Val(opath)
             on == IF IsNone(ofile) THEN DefaultOfile(ifile, iext, oext) ELSE Val(ofile)
         IN  [ok |-> TRUE, exc |-> "",
              ifile |-> PathJoin(Val(ipath), ifile),
              ofile |-> PathJoin(od, on),
              oname |-> on,
              opath |-> od]

(***************************************************************************)
(* Path resolution on its own: every name, as each operation calls it.     *)
(***************************************************************************)
NamePieces == { <<"x">>, <<".">>, DotSam, DotBam, <<"s", "a">>, <<"m">> }
Names == TextsOf(NamePieces, MaxNamePieces)
DirD == <<"/", "d">>
DirO == <<"/", "o">>
DirR == <<"r">>
OutName == <<"o", ".", "o", "u", "t">>

\* the locals of a call: the resolved paths, and what validate() returned
NoLocals == [p |-> [ok |-> FALSE, exc |-> ""], vret |-> -1]

NoProcs == [p \in {"sort", "view", "tool", "validator"} |->
              [started |-> FALSE, waited |-> FALSE, pipes |-> FALSE]]

InitPaths ==
    /\ pc = "call"
    /\ op \in ConvertOps
    /\ arg \in [ifile : Names, ipath : {None, Some(DirD)},
                ofile : {None, Some(OutName)},
                opath : {None, Some(DirO), Some(DirR)}]
    /\ loc = NoLocals
    /\ out = Pending
    /\ events = << >>
    /\ procs = NoProcs
    /\ fs = {}
    /\ logger = None

PreparePathsCall ==
    /\ pc = "call"
    /\ LET r == PreparePaths(arg.ifile, arg.ipath, arg.ofile, arg.opath, IExt(op), OExt(op))
       IN  /\ loc' = [loc EXCEPT !.p = r]
           /\ out' = IF r.ok THEN Return(0) ELSE Raise(r.exc)
    /\ pc' = "done"
    /\ UNCHANGED <<op, arg, events, procs, fs, logger>>

NextPaths == PreparePathsCall

SpecPaths == InitPaths /\ [][NextPaths]_vars

\* C2: with no output name supplied, a name ending with the input extension
\* gets exactly that trailing extension replaced by the output extension, and
\* any other name (extension in the middle, shorter than the extension) gets
\* the output extension appended to the whole name.
C2_DefaultName ==
    (pc = "done" /\ loc.p.ok /\ IsNone(arg.ofile)) =>
        LET iext == IF op = "create_bai_from_bam" THEN DotBam ELSE DotSam
            oext == IF op = "create_bai_from_bam" THEN DotBai ELSE DotBam
        IN  IF EndsWith(arg.ifile, iext)
            THEN /\ loc.p.oname = SubSeq(arg.ifile, 1, Len(arg.ifile) - Len(iext)) \o oext
                 /\ Len(loc.p.oname) = Len(arg.ifile) - Len(iext) + Len(oext)
            ELSE loc.p.oname = arg.ifile \o oext

C2_Witness ==
    /\ pc = "done" /\ loc.p.ok /\ IsNone(arg.ofile)
    /\ op = "convert_sam_to_sorted_bam"
    /\ arg.ifile = <<"x">> \o DotSam
    /\ loc.p.oname = <<"x">> \o DotBam

\* C3: convert_bam_to_sam without an output name resolves an output path that
\* ends in '.sam', differs from the input path, and is the input name with a
\* trailing '.bam' replaced by '.sam' (or '.sam' appended).
C3_BamToSamName ==
    (pc = "done" /\ loc.p.ok /\ IsNone(arg.ofile) /\ op = "convert_bam_to_sam") =>
        /\ EndsWith(loc.p.ofile, DotSam)
        /\ loc.p.ofile # loc.p.ifile
        /\ loc.p.oname = IF EndsWith(arg.ifile, DotBam)
                       THEN SubSeq(arg.ifile, 1, Len(arg.ifile) - 4) \o DotSam
                       ELSE arg.ifile \o DotSam

(***************************************************************************)
(* Validation classifier.                                                  *)
(***************************************************************************)
ErrorTag == <<"E", "R", "R", "O", "R", ":">>
ExceptionMarker == <<"E", "x", "c", "e", "p", "t", "i", "o", "n">>
NL == <<"\n">>

\* \w of the regular expressions
WordChars ==
    { "a", "b", "c", "d", "e", "f", "g", "h", "i", "j", "k", "l", "m",
      "n", "o", "p", "q", "r", "s", "t", "u", "v", "w", "x", "y", "z",
      "A", "B", "C", "D", "E", "F", "G", "H", "I", "J", "K", "L", "M",
      "N", "O", "P", "Q", "R", "S", "T", "U", "V", "W", "X", "Y", "Z",
      "0", "1", "2", "3", "4", "5", "6", "7", "8", "9", "_" }

\* index of the first line break of s, 0 when there is none
FirstNL(s) == IF \E i \in 1..Len(s) : s[i] = "\n"
              THEN CHOOSE i \in 1..Len(s) : s[i] = "\n" /\ \A j \in 1..(i - 1) : s[j] # "\n"
              ELSE 0

\* str.splitlines()
RECURSIVE SplitLines(_)
SplitLines(s) ==
    IF Len(s) = 0 THEN << >>
    ELSE LET i == FirstNL(s)
         IN  IF i = 0 THEN << s >>
             ELSE << SubSeq(s, 1, i - 1) >> \o SplitLines(SubSeq(s, i + 1, Len(s)))

\* the longest run of characters of cs in s that starts at index i
RECURSIVE RunFrom(_, _, _)
RunFrom(s, i, cs) ==
    IF i > Len(s) \/ s[i] \notin cs THEN << >>
    ELSE << s[i] >> \o RunFrom(s, i + 1, cs)

\* the start indices of the matches of (?<=ERROR:)\w+ in s
ErrorStarts(s) ==
    { i \in 7..Len(s) : SubSeq(s, i - 6, i - 1) = ErrorTag /\ s[i] \in WordChars }

\* re.search('(?<=ERROR:)\w+', line): group(0) of the leftmost match, or None
SearchError(line) ==
    LET st == ErrorStarts(line)
    IN  IF st = {} THEN None
        ELSE LET i == CHOOSE k \in st : \A j \in st : k <= j
             IN  Some(RunFrom(line, i, WordChars))

Sentinel == <<"x", "x", "x">>

\* _is_valid(result, ignore); IsValidCall records True as 1 and False as 0
IsValid(result, ignore) ==
    IF IsNone(result) THEN TRUE
    ELSE LET ign == IF IsNone(ignore) THEN { Sentinel } ELSE Val(ignore)
             lines == SplitLines(Val(result))
         IN  IF Contains(Val(result), ExceptionMarker) THEN FALSE
             ELSE \A k \in 1..Len(lines) :
                     LET m == SearchError(lines[k])
                     IN  ~(~IsNone(m) /\ Val(m) \notin ign)

TokA == <<"A">>
TokB == <<"B">>
TextPieces == { ErrorTag \o TokA, ErrorTag \o TokB, ErrorTag, TokA, <<" ">>, NL, ExceptionMarker }
Texts == TextsOf(TextPieces, MaxTextPieces)
IgnoreSets == { None, Some({}), Some({TokA}), Some({TokB}), Some({TokA, TokA \o TokB}) }

InitValid ==
    /\ pc = "call"
    /\ op = "_is_valid"
    /\ arg \in [result : {None} \cup { Some(t) : t \in Texts }, ignore : IgnoreSets]
    /\ loc = NoLocals
    /\ out = Pending
    /\ events = << >>
    /\ procs = NoProcs
    /\ fs = {}
    /\ logger = None

IsValidCall ==
    /\ pc = "call"
    /\ out' = Return(IF IsValid(arg.result, arg.ignore) THEN 1 ELSE 0)
    /\ pc' = "done"
    /\ UNCHANGED <<op, arg, loc, events, procs, fs, logger>>

NextValid == IsValidCall

SpecValid == InitValid /\ [][NextValid]_vars

\* C4: for a report text that is present, the verdict is fail exactly when the
\* text contains the failure marker, or contains some ERROR:<token> occurrence
\* (anywhere on any line, a later one of the same line included) whose token
\* is not in the ignore set; the marker forces fail whatever the ignore set.
C4_Classifier ==
    (pc = "done" /\ ~IsNone(arg.result) /\ ~IsNone(arg.ignore)) =>
        LET t == Val(arg.result)
            fail == \/ Contains(t, ExceptionMarker)
                    \/ \E i \in ErrorStarts(t) : RunFrom(t, i, WordChars) \notin Val(arg.ignore)
        IN  (out.val = 0) <=> fail

(***************************************************************************)
(* Statistics parser.                                                      *)
(***************************************************************************)
DigitChars == <<"0", "1", "2", "3", "4", "5", "6", "7", "8", "9">>
Digits == { DigitChars[i] : i \in 1..10 }
DigitVal(c) == (CHOOSE i \in 1..10 : DigitChars[i] = c) - 1

\* int(s) of a string of decimal digits
RECURSIVE ParseInt(_)
ParseInt(ds) ==
    IF Len(ds) = 0 THEN 0
    ELSE 10 * ParseInt(SubSeq(ds, 1, Len(ds) - 1)) + DigitVal(ds[Len(ds)])

\* str(n) of a natural number
RECURSIVE Dec(_)
Dec(n) == IF n < 10 THEN << DigitChars[n + 1] >>
          ELSE Dec(n \div 10) \o << DigitChars[(n % 10) + 1] >>

Plus == <<" ", "+", " ">>

\* two_nums.match(line) for two_nums = ^(\d+) \+ (\d+): the groups, or None
TwoNums(line) ==
    LET g1 == RunFrom(line, 1, Digits)
        g2 == RunFrom(line, Len(g1) + 4, Digits)
    IN  IF /\ Len(g1) > 0
           /\ Len(line) >= Len(g1) + 3
           /\ SubSeq(line, Len(g1) + 1, Len(g1) + 3) = Plus
           /\ Len(g2) > 0
        THEN Some(<<g1, g2>>)
        ELSE None

\* a reader of a report line that yields zeros for a missing or unmatched line
CountsOrZero(lines, i) == 
    IF i + 1 > Len(lines) \/ IsNone(TwoNums(lines[i + 1]))
    THEN [ok |-> TRUE, exc |-> "", a |-> 0, b |-> 0]
    ELSE LET m == TwoNums(lines[i + 1])
         IN  [ok |-> TRUE, exc |-> "", a |-> ParseInt(Val(m)[1]), b |-> ParseInt(Val(m)[2])]

\* m = two_nums.match(lines[i]); int(m.group(1)); int(m.group(2))
Counts(lines, i) ==
    IF i + 1 > Len(lines) THEN [ok |-> FALSE, exc |-> "IndexError", a |-> 0, b |-> 0]
    ELSE LET m == TwoNums(lines[i + 1])
         IN  IF IsNone(m) THEN [ok |-> FALSE, exc |-> "AttributeError", a |-> 0, b |-> 0]
             ELSE [ok |-> TRUE, exc |-> "", a |-> ParseInt(Val(m)[1]), b |-> ParseInt(Val(m)[2])]

\* a rate that is not clamped
AlignmentRateRaw(mapped_r, total_read) ==
    IF total_read = 0 THEN [num |-> 0, den |-> 1]
    ELSE [num |-> mapped_r * 100, den |-> total_read]

\* alignment_rate, as the exact fraction num/den; the float quotient times
\* 100.0 is above 100 exactly when mapped_r is above total_read
AlignmentRate(mapped_r, total_read) ==
    IF total_read = 0 THEN [num |-> 0, den |-> 1]
    ELSE IF mapped_r * 100 > 100 * total_read THEN [num |-> 100, den |-> 1]
    ELSE [num |-> mapped_r * 100, den |-> total_read]

LogRecord(level) == [ev |-> "log", what |-> level]

\* _extractAlignmentStatsInfo(stats) of an object whose self.logger is lg:
\* the outcome, and the records it hands to self.logger
ExtractStats(stats, lg) ==
    LET lines == SplitLines(stats)
        l0 == Counts(lines, 0)
        l4 == Counts(lines, 4)
        l10 == Counts(lines, 10)
        l8 == Counts(lines, 8)
        total_read == l0.a + l0.b
        mapped_r == l4.a
    IN  IF ~l0.ok THEN [o |-> Raise(l0.exc), logs |-> << >>]
        ELSE IF ~l4.ok THEN [o |-> Raise(l4.exc), logs |-> << >>]
        ELSE IF total_read = 0 /\ IsNone(lg) THEN [o |-> Raise("AttributeError"), logs |-> << >>]
        ELSE LET logs == IF total_read = 0 THEN << LogRecord("ERROR") >> ELSE << >>
             IN  IF ~l10.ok THEN [o |-> Raise(l10.exc), logs |-> logs]
                 ELSE IF ~l8.ok THEN [o |-> Raise(l8.exc), logs |-> logs]
                 ELSE [o |-> ReturnRec([alignment_rate |-> AlignmentRate(mapped_r, total_read),
                                        multiple_alignments |-> 0,
                                        properly_paired |-> l8.a,
                                        singletons |-> l10.a,
                                        total_reads |-> total_read,
                                        unmapped_reads |-> total_read - mapped_r,
                                        mapped_reads |-> mapped_r]),
                       logs |-> logs]

(***************************************************************************)
(* Reports: the lines flagstat prints, each ended by a line break.         *)
(***************************************************************************)
MaxLines == 12

GoodLine(a, b, tail) == [txt |-> Dec(a) \o Plus \o Dec(b) \o tail, good |-> TRUE, a |-> a, b |-> b]
BadLine(t) == [txt |-> t, good |-> FALSE, a |-> 0, b |-> 0]
InTotal == <<" ", "i", "n">>
Filler == BadLine(<<"f">>)
BadLines == { BadLine(<<"x">>), BadLine(<< >>), BadLine(<<" ">> \o Dec(1) \o Plus \o Dec(0)),
              BadLine(Dec(1) \o <<" ", "+">> \o Dec(0)) }
Line0Set == { GoodLine(a, b, InTotal) : a \in 0..MaxCount, b \in 0..MaxCount }
              \cup { GoodLine(10, 2, << >>) } \cup BadLines
Line4Set == { GoodLine(a, 0, InTotal) : a \in 0..(MaxCount + 1) }
              \cup { GoodLine(8, 0, << >>), BadLine(<<"x">>), BadLine(Dec(1) \o <<" ", "+">> \o Dec(0)) }
Line8Set == { GoodLine(6, 0, << >>), GoodLine(0, 1, InTotal), BadLine(<<"x">>) }
Line10Set == { GoodLine(1, 0, << >>), BadLine(<< >>) }

MkLines(n, l0, l4, l8, l10) ==
    [i \in 1..n |-> IF i = 1 THEN l0 ELSE IF i = 5 THEN l4 ELSE IF i = 9 THEN l8
                    ELSE IF i = 11 THEN l10 ELSE Filler]
ReportLines == { MkLines(n, l0, l4, l8, l10) :
                   n \in 0..MaxLines, l0 \in Line0Set, l4 \in Line4Set,
                   l8 \in Line8Set, l10 \in Line10Set }

RECURSIVE ReportText(_)
ReportText(ls) == IF Len(ls) = 0 THEN << >> ELSE Head(ls).txt \o NL \o ReportText(Tail(ls))

BamName == <<"x">> \o DotBam

InitStats ==
    /\ pc = "call"
    /\ op \in {"_extractAlignmentStatsInfo", "get_stats"}
    /\ \E ls \in ReportLines, d \in {DirD, DirR} :
          /\ arg = [ifile |-> BamName, ipath |-> d, lines |-> ls, stats |-> ReportText(ls)]
          /\ op = "_extractAlignmentStatsInfo" => d = DirD
    /\ fs \in {{}, {PathJoin(DirD, BamName)}}
    /\ op = "_extractAlignmentStatsInfo" => fs = {}
    /\ loc = NoLocals
    /\ out = Pending
    /\ events = << >>
    /\ procs = NoProcs
    /\ logger \in {None, Some("logger")}

\* a direct call of _extractAlignmentStatsInfo
ExtractCall ==
    /\ pc = "call" /\ op = "_extractAlignmentStatsInfo"
    /\ LET r == ExtractStats(arg.stats, logger)
       IN  /\ out' = r.o
           /\ events' = events \o r.logs
    /\ pc' = "done"
    /\ UNCHANGED <<op, arg, loc, procs, fs, logger>>

\* get_stats up to the existence check
GetStatsPaths ==
    /\ pc = "call" /\ op = "get_stats"
    /\ IF ~StartsWith(arg.ipath, Slash)
       THEN /\ out' = Raise("Exception") /\ pc' = "done" /\ loc' = loc
            /\ events' = events
       ELSE LET f == PathJoin(arg.ipath, arg.ifile)
            IN  /\ loc' = [loc EXCEPT !.p = [ok |-> TRUE, exc |-> "", ifile |-> f]]
                /\ events' = Append(events, [ev |-> "exists", what |-> "input"])
                /\ IF f \notin fs
                   THEN out' = Raise("RuntimeError") /\ pc' = "done"
                   ELSE out' = out /\ pc' = "check_prog"
    /\ UNCHANGED <<op, arg, procs, fs, logger>>

\* _check_prog: whereis finds samtools or not
CheckProg ==
    /\ pc = "check_prog"
    /\ events' = Append(events, [ev |-> "whereis", what |-> "samtools"])
    /\ \E found \in BOOLEAN :
          IF found THEN pc' = "run" /\ out' = out
          ELSE pc' = "done" /\ out' = Raise("RuntimeError")
    /\ UNCHANGED <<op, arg, loc, procs, fs, logger>>

\* get_stats: samtools flagstat, then the parse of what it printed
GetStatsRun ==
    /\ pc = "run" /\ op = "get_stats"
    /\ \/ /\ out' = Raise("OSError")
          /\ UNCHANGED <<events, procs>>
       \/ /\ procs' = [procs EXCEPT !["tool"] = [started |-> TRUE, waited |-> FALSE, pipes |-> TRUE]]
          /\ out' = Raise("OSError")
          /\ events' = Append(events, [ev |-> "popen", what |-> "flagstat"])
       \/ LET r == ExtractStats(arg.stats, logger)
          IN  /\ procs' = [procs EXCEPT !["tool"] = [started |-> TRUE, waited |-> TRUE, pipes |-> FALSE]]
              /\ out' = r.o
              /\ events' = Append(events, [ev |-> "popen", what |-> "flagstat"]) \o r.logs
    /\ pc' = "done"
    /\ UNCHANGED <<op, arg, loc, fs, logger>>

NextStats == ExtractCall \/ GetStatsPaths \/ CheckProg \/ GetStatsRun

SpecStats == InitStats /\ [][NextStats]_vars

Returned == pc = "done" /\ out.kind = "return" /\ ~IsNone(out.rec)
Parsed == pc = "done" /\ \E i \in 1..Len(events) : events[i] = [ev |-> "popen", what |-> "flagstat"]
Expected(i) == i + 1 <= Len(arg.lines) /\ arg.lines[i + 1].good
WellFormed == Expected(0) /\ Expected(4) /\ Expected(8) /\ Expected(10)
TotalIn == arg.lines[1].a + arg.lines[1].b
MappedIn == arg.lines[5].a
InRange(r) == 0 <= r.num /\ r.num <= 100 * r.den /\ r.den > 0

\* C5: a well-formed report whose line 0 has both counts 0 is parsed without
\* an exception, whether or not a logger was supplied, with
\* alignmentRatePercent = 0 and one log record at warning severity.
C5_ZeroTotal ==
    (pc = "done" /\ op = "_extractAlignmentStatsInfo" /\ WellFormed /\ TotalIn = 0) =>
        /\ Returned
        /\ Val(out.rec).alignment_rate.num = 0
        /\ events = << LogRecord("WARNING") >>

\* C6 as stated: every returned record has unmappedReads = totalReads -
\* mappedReads, unmappedReads >= 0 and alignmentRatePercent in [0, 100].
C6_Original ==
    Returned =>
        LET r == Val(out.rec)
        IN  /\ r.unmapped_reads = r.total_reads - r.mapped_reads
            /\ r.unmapped_reads >= 0
            /\ InRange(r.alignment_rate)

\* C6 amended: every returned record has totalReads and mappedReads as the
\* report gives them, unmappedReads = totalReads - mappedReads (negative
\* exactly when mappedReads > totalReads), and alignmentRatePercent in
\* [0, 100], equal to 100 when the ratio is above 100.
C6_Record ==
    Returned =>
        LET r == Val(out.rec)
        IN  /\ r.total_reads = TotalIn /\ r.mapped_reads = MappedIn
            /\ r.unmapped_reads = r.total_reads - r.mapped_reads
            /\ (r.unmapped_reads >= 0) <=> (MappedIn <= TotalIn)
            /\ InRange(r.alignment_rate)
            /\ (TotalIn > 0 /\ MappedIn > TotalIn) =>
                   r.alignment_rate = [num |-> 100, den |-> 1]
            /\ (TotalIn > 0 /\ MappedIn <= TotalIn) =>
                   r.alignment_rate.num * TotalIn = 100 * MappedIn * r.alignment_rate.den

C6_Witness ==
    /\ Returned
    /\ TotalIn = 1 /\ MappedIn = 3
    /\ Val(out.rec).unmapped_reads = -2
    /\ Val(out.rec).alignment_rate = [num |-> 100, den |-> 1]

\* C7: when one of the lines 0, 4, 8, 10 is missing or does not start with
\* the A + B pattern, the parser and get_stats end in an error and return no
\* stats record, whatever the other lines and totalReads are.
C7_Malformed ==
    /\ (pc = "done" /\ op = "_extractAlignmentStatsInfo" /\ ~WellFormed) =>
           (out.kind = "raise" /\ IsNone(out.rec))
    /\ (pc = "done" /\ op = "get_stats" /\ ~WellFormed) =>
           (out.kind = "raise" /\ IsNone(out.rec))
    /\ (pc # "done") => out = Pending

C7_Witness ==
    /\ Parsed /\ op = "get_stats"
    /\ Expected(0) /\ Expected(4) /\ Expected(10) /\ ~Expected(8)
    /\ Len(arg.lines) >= 11
    /\ TotalIn = 0
    /\ logger # None
    /\ out.kind = "raise"

(***************************************************************************)
(* The public operations that return a status.                             *)
(***************************************************************************)
SamName == <<"x">> \o DotSam
PlainName == <<"x">>
FacadeNames == { SamName, BamName, PlainName }

MateNotFound == <<"M", "A", "T", "E", "_", "N", "O", "T", "_", "F", "O", "U", "N", "D">>
MissingReadGroup ==
    <<"M", "I", "S", "S", "I", "N", "G", "_", "R", "E", "A", "D", "_", "G", "R", "O", "U", "P">>
InvalidMappingQuality ==
    <<"I", "N", "V", "A", "L", "I", "D", "_", "M", "A", "P", "P", "I", "N", "G", "_",
      "Q", "U", "A", "L", "I", "T", "Y">>
\* the default value of the ignore parameter
DefaultIgnore == { MateNotFound, MissingReadGroup, InvalidMappingQuality }

\* what the validator may print
ValidatorOutputs ==
    { << >>,
      ErrorTag \o MateNotFound \o NL,
      ErrorTag \o TokA \o NL,
      ErrorTag \o MateNotFound \o <<" ">> \o ErrorTag \o TokA \o NL,
      ExceptionMarker \o NL }

Event(e, w) == [ev |-> e, what |-> w]
Has(e, w) == \E i \in 1..Len(events) : events[i] = Event(e, w)

Init ==
    /\ pc = "idle"
    /\ op = "none"
    /\ arg = [ifile |-> << >>, ipath |-> None, ofile |-> None, opath |-> None,
              validate |-> FALSE, ignore |-> None]
    /\ loc = NoLocals
    /\ out = Pending
    /\ events = << >>
    /\ procs = NoProcs
    /\ fs = {}
    /\ logger = None

\* a call of one of the two conversions or of create_bai_from_bam
CallConvert ==
    /\ pc = "idle"
    /\ op' \in ConvertOps
    /\ arg' \in [ifile : FacadeNames, ipath : {None, Some(DirD), Some(DirR)},
                 ofile : {None, Some(OutName)},
                 opath : {None, Some(DirO), Some(DirR)},
                 validate : BOOLEAN, ignore : {None, Some(DefaultIgnore)}]
    /\ fs' \in IF IsNone(arg'.ipath) THEN {{}}
               ELSE {{}, {PathJoin(Val(arg'.ipath), arg'.ifile)}}
    /\ pc' = "prepare"
    /\ UNCHANGED <<loc, out, events, procs, logger>>

\* a call of validate
CallValidate ==
    /\ pc = "idle"
    /\ op' = "validate"
    /\ arg' \in [ifile : FacadeNames, ipath : {Some(DirD), Some(DirR)},
                 ofile : {None}, opath : {None},
                 validate : {FALSE}, ignore : {None, Some(DefaultIgnore)}]
    /\ fs' \in {{}, {PathJoin(Val(arg'.ipath), arg'.ifile)}}
    /\ pc' = "v_paths"
    /\ UNCHANGED <<loc, out, events, procs, logger>>

\* the call of _prepare_paths that opens each operation
Prepare ==
    /\ pc = "prepare"
    /\ LET r == PreparePaths(arg.ifile, arg.ipath, arg.ofile, arg.opath, IExt(op), OExt(op))
       IN  /\ loc' = [loc EXCEPT !.p = r]
           /\ IF r.ok THEN pc' = "exists" /\ out' = out
              ELSE pc' = "done" /\ out' = Raise(r.exc)
    /\ UNCHANGED <<op, arg, events, procs, fs, logger>>

\* an existence check that lets a missing input through
ExistsCheckLax ==
    /\ pc = "exists"
    /\ events' = Append(events, Event("exists", "input"))
    /\ pc' = IF arg.validate THEN "v_paths" ELSE "check_prog"
    /\ UNCHANGED <<op, arg, loc, out, procs, fs, logger>>

\* if not os.path.exists(ifile): raise RuntimeError; then "validate and ..."
ExistsCheck ==
    /\ pc = "exists"
    /\ events' = Append(events, Event("exists", "input"))
    /\ IF loc.p.ifile \notin fs
       THEN pc' = "done" /\ out' = Raise("RuntimeError")
       ELSE pc' = (IF arg.validate THEN "v_paths" ELSE "check_prog") /\ out' = out
    /\ UNCHANGED <<op, arg, loc, procs, fs, logger>>

\* the arguments validate() is called with: by the caller, or by an operation
VIfile == IF op = "validate" THEN arg.ifile ELSE loc.p.ifile
VIpath == Val(arg.ipath)

\* validate, up to its existence check
ValidatePaths ==
    /\ pc = "v_paths"
    /\ IF ~StartsWith(VIpath, Slash)
       THEN pc' = "done" /\ out' = Raise("Exception") /\ events' = events
       ELSE /\ events' = Append(events, Event("exists", "validate"))
            /\ IF PathJoin(VIpath, VIfile) \notin fs
               THEN pc' = "done" /\ out' = Raise("RuntimeError")
               ELSE pc' = "v_popen" /\ out' = out
    /\ UNCHANGED <<op, arg, loc, procs, fs, logger>>

\* validate: Popen of the validator, which starts it or raises
ValidatorPopen ==
    /\ pc = "v_popen"
    /\ \/ /\ events' = events \o << Event("popen", "validator"), Event("exc", "validator"),
                                    LogRecord("ERROR") >>
          /\ loc' = [loc EXCEPT !.vret = 1]
          /\ pc' = "v_ret"
          /\ procs' = procs
       \/ /\ events' = Append(events, Event("popen", "validator"))
          /\ procs' = [procs EXCEPT !["validator"] =
                         [started |-> TRUE, waited |-> FALSE, pipes |-> TRUE]]
          /\ loc' = loc
          /\ pc' = "v_comm"
    /\ UNCHANGED <<op, arg, out, fs, logger>>

\* validate: communicate(), decode, _is_valid and the two logged verdicts
ValidatorCommunicate ==
    /\ pc = "v_comm"
    /\ \/ /\ events' = events \o << Event("exc", "validator"), LogRecord("ERROR") >>
          /\ loc' = [loc EXCEPT !.vret = 1]
          /\ procs' = procs
       \/ \E t \in ValidatorOutputs :
            /\ procs' = [procs EXCEPT !["validator"] =
                           [started |-> TRUE, waited |-> TRUE, pipes |-> FALSE]]
            /\ IF IsValid(Some(t), arg.ignore)
               THEN /\ events' = events \o << Event("verdict", "pass"), LogRecord("INFO") >>
                    /\ loc' = [loc EXCEPT !.vret = 0]
               ELSE /\ events' = events \o << Event("verdict", "fail"), LogRecord("ERROR") >>
                    /\ loc' = [loc EXCEPT !.vret = 1]
    /\ pc' = "v_ret"
    /\ UNCHANGED <<op, arg, out, fs, logger>>

\* validate called by the caller: its return value is the outcome
ValidateReturn ==
    /\ pc = "v_ret" /\ op = "validate"
    /\ out' = Return(loc.vret)
    /\ pc' = "done"
    /\ UNCHANGED <<op, arg, loc, events, procs, fs, logger>>

\* a gate that goes on whatever validate returned
ValidateGateOpen ==
    /\ pc = "v_ret" /\ op \in ConvertOps
    /\ pc' = "check_prog"
    /\ UNCHANGED <<op, arg, loc, out, events, procs, fs, logger>>

\* if validate and self.validate(ifile, ipath, ignore=ignore) == 1: return 1
ValidateGate ==
    /\ pc = "v_ret" /\ op \in ConvertOps
    /\ IF loc.vret = 1 THEN pc' = "done" /\ out' = Return(1)
       ELSE pc' = "check_prog" /\ out' = out
    /\ UNCHANGED <<op, arg, loc, events, procs, fs, logger>>

\* a handler that returns 0 in every operation
ExceptReturnZero(o) == IF o = "create_bai_from_bam" THEN 0 ELSE 0

\* what an operation returns once its except clause has logged the exception
ExceptReturn(o) == IF o = "create_bai_from_bam" THEN 1 ELSE 0

\* the except clause of an operation, and the return that follows it
Except(before, what) ==
    /\ events' = events \o before \o << Event("exc", what), LogRecord("ERROR") >>
    /\ out' = Return(ExceptReturn(op))
    /\ pc' = "done"

\* convert_sam_to_sorted_bam: log, then Popen of the sort stage
PopenSort ==
    /\ pc = "run" /\ op = "convert_sam_to_sorted_bam"
    /\ \/ /\ Except(<< LogRecord("default"), Event("popen", "sort") >>, "sort")
          /\ procs' = procs
       \/ /\ events' = events \o << LogRecord("default"), Event("popen", "sort") >>
          /\ procs' = [procs EXCEPT !["sort"] =
                         [started |-> TRUE, waited |-> FALSE, pipes |-> TRUE]]
          /\ pc' = "popen_view"
          /\ out' = out
    /\ UNCHANGED <<op, arg, loc, fs, logger>>

\* convert_sam_to_sorted_bam: Popen of the view stage, writing to sort.stdin
PopenView ==
    /\ pc = "popen_view"
    /\ \/ /\ Except(<< Event("popen", "view") >>, "view")
          /\ procs' = procs
       \/ /\ events' = Append(events, Event("popen", "view"))
          /\ procs' = [procs EXCEPT !["view"] =
                         [started |-> TRUE, waited |-> FALSE, pipes |-> FALSE]]
          /\ pc' = "sort_comm"
          /\ out' = out
    /\ UNCHANGED <<op, arg, loc, fs, logger>>

\* convert_sam_to_sorted_bam: sort.communicate()
SortCommunicate ==
    /\ pc = "sort_comm"
    /\ \/ /\ Except(<< >>, "sort")
          /\ procs' = procs
       \/ /\ procs' = [procs EXCEPT !["sort"] =
                         [started |-> TRUE, waited |-> TRUE, pipes |-> FALSE]]
          /\ pc' = "view_wait"
          /\ UNCHANGED <<events, out>>
    /\ UNCHANGED <<op, arg, loc, fs, logger>>

\* convert_sam_to_sorted_bam: view.wait() and return 0
ViewWait ==
    /\ pc = "view_wait"
    /\ procs' = [procs EXCEPT !["view"].waited = TRUE]
    /\ out' = Return(0)
    /\ pc' = "done"
    /\ UNCHANGED <<op, arg, loc, events, fs, logger>>

\* convert_bam_to_sam and create_bai_from_bam: log, then Popen of the command
PopenTool ==
    /\ pc = "run" /\ op \in {"convert_bam_to_sam", "create_bai_from_bam"}
    /\ \/ /\ Except(<< LogRecord("default"), Event("popen", "tool") >>, "tool")
          /\ procs' = procs
       \/ /\ events' = events \o << LogRecord("default"), Event("popen", "tool") >>
          /\ procs' = [procs EXCEPT !["tool"] =
                         [started |-> TRUE, waited |-> FALSE, pipes |-> TRUE]]
          /\ pc' = "tool_comm"
          /\ out' = out
    /\ UNCHANGED <<op, arg, loc, fs, logger>>

\* convert_bam_to_sam and create_bai_from_bam: communicate() and return 0
ToolCommunicate ==
    /\ pc = "tool_comm"
    /\ \/ /\ Except(<< >>, "tool")
          /\ procs' = procs
       \/ /\ procs' = [procs EXCEPT !["tool"] =
                         [started |-> TRUE, waited |-> TRUE, pipes |-> FALSE]]
          /\ out' = Return(0)
          /\ pc' = "done"
          /\ events' = events
    /\ UNCHANGED <<op, arg, loc, fs, logger>>

Next ==
    \/ CallConvert \/ CallValidate \/ Prepare \/ ExistsCheck
    \/ ValidatePaths \/ ValidatorPopen \/ ValidatorCommunicate
    \/ ValidateReturn \/ ValidateGate \/ CheckProg
    \/ PopenSort \/ PopenView \/ SortCommunicate \/ ViewWait
    \/ PopenTool \/ ToolCommunicate

Spec == Init /\ [][Next]_vars

Launches == {"validator", "sort", "view", "tool"}
ToolLaunches == {"sort", "view", "tool"}
Resolved == op \in ConvertOps /\ loc.p.ok
Before(i, e, w) == \E j \in 1..(i - 1) : events[j] = Event(e, w)

\* C1: in the two conversions and in create_bai_from_bam, once the paths are
\* resolved and the input path does not exist, the call ends in the
\* RuntimeError of the existence check, and at no point of the call has a
\* process been launched or the tool been looked up.
C1_MissingInput ==
    (Resolved /\ loc.p.ifile \notin fs) =>
        /\ pc \in {"exists", "done"}
        /\ pc = "done" => out = Raise("RuntimeError")
        /\ \A w \in Launches : ~Has("popen", w) /\ ~procs[w].started
        /\ ~Has("whereis", "samtools")

C1_Witness ==
    /\ Resolved /\ loc.p.ifile \notin fs
    /\ op = "create_bai_from_bam" /\ arg.validate
    /\ pc = "done" /\ out = Raise("RuntimeError")
    /\ Has("exists", "input")

C10_Released ==
    (pc = "done" /\ op = "convert_sam_to_sorted_bam") =>
        /\ \A w \in {"sort", "view"} :
              procs[w].started => (procs[w].waited /\ ~procs[w].pipes)
        /\ (\A w \in Launches : ~Has("exc", w)) =>
              (procs["sort"].waited /\ procs["view"].waited)
====
